---- MODULE Spec2Model ----
(***************************************************************************)
(* Serial MIDI decoder of arduino-midi-sound-module (midi.h).              *)
(*                                                                         *)
(* The decoder state is the five static fields of class Midi.  decode()    *)
(* is translated statement by statement; the six extern handlers are       *)
(* opaque, so each call is recorded (handler name and arguments) in the    *)
(* history variable `calls`.                                               *)
(***************************************************************************)
EXTENDS Integers, Sequences, FiniteSets, TLC

(***************************************************************************)
(* enum MidiStatus : uint8_t                                               *)
(***************************************************************************)
MidiStatus_NoteOff         == 0
MidiStatus_NoteOn          == 1
MidiStatus_PolyKeyPressure == 2
MidiStatus_ControlChange   == 3
MidiStatus_ProgramChange   == 4
MidiStatus_ChannelPressure == 5
MidiStatus_PitchBend       == 6
MidiStatus_Extended        == 7
MidiStatus_Unknown         == 8

maxMidiData == 32

(***************************************************************************)
(* Bounds of the explored input language.  The environment follows one of  *)
(* two profiles, fixed in the initial state:                               *)
(*   "short"  every kind of status byte, free data bytes, payloads of at   *)
(*            most MaxPayload bytes;                                       *)
(*   "long"   few status bytes, payloads that run past the 32 byte buffer. *)
(* A data byte written to one of the buffer slots a channel message uses   *)
(* (slot 0 only in "long") is any of the profile's data bytes; a deeper    *)
(* slot p only ever receives Filler(p), so the reachable buffer contents   *)
(* stay finite while every slot still holds its own value.  At most        *)
(* MaxStray data bytes in a row are fed while no message is in progress    *)
(* (status Unknown, or no data byte expected).                             *)
(***************************************************************************)
MaxPayload == 3
MaxStray   == 2

Profiles == {"short", "long"}

ShortDataBytes   == {0, 1, 127}
ShortStatusBytes == {128, 144, 159, 160, 176, 192, 208, 224, 240, 248, 255}
LongDataBytes    == {1, 2}
LongStatusBytes  == {144, 240, 247}
Filler(p)        == p + 1

VARIABLES
  midiStatus,          \* Midi::midiStatus
  midiChannel,         \* Midi::midiChannel
  midiDataRemaining,   \* Midi::midiDataRemaining
  midiDataIndex,       \* Midi::midiDataIndex
  midiData,            \* Midi::midiData[maxMidiData], indexed 0..31
  oob,                 \* TRUE once midiData was written outside 0..31
  op,                  \* history: name of the last operation executed
  lastByte,            \* history: argument of the last decode call
  calls,               \* history: handler calls made by the last decode call
  cur,                 \* history: bytes decoded since, and including, the
                       \*          last status byte
  curEndsSysex,        \* history: cur[1] was decoded in status Extended
  curCalls,            \* history: handler calls made while decoding cur
  abandoned,           \* history: the data bytes a channel message had
                       \*          received when cur[1] cut it short, or -1
                       \*          if cur[1] cut no channel message short
  stray,               \* history: data bytes in a row decoded with no
                       \*          message in progress
  profile,             \* environment: the input profile
  script,              \* environment: bytes still to be fed, in order (a
                       \*          script), or the cyclic pattern of the wire
  qBuffer,             \* Midi::_midiBuffer: storage, indexed 0..capacity-1
  qHead,               \* Midi::_midiBuffer: read cursor
  qTail,               \* Midi::_midiBuffer: write cursor
  pc,                  \* main loop: position in and around Midi::dispatch()
  received,            \* Midi::dispatch(): local `received`
  wire,                \* history: bytes the receive interrupt was raised for
  pushed,              \* history: bytes whose enqueue succeeded
  pushOk,              \* history: what the last enqueue returned
  popped,              \* history: bytes dequeue has handed out
  decoded,             \* history: bytes dispatch() has passed to decode
  allCalls,            \* history: handler calls made from dispatch()
  callClean,           \* history: no byte has arrived during the current
                       \*          call of dispatch()
  owed                 \* history: bytes unread when that call began,
                       \*          less the decode calls it has made; kept
                       \*          only while callClean

decoderVars == <<midiStatus, midiChannel, midiDataRemaining, midiDataIndex,
                 midiData, oob>>
historyVars == <<op, lastByte, calls, cur, curEndsSysex, curCalls, abandoned,
                 stray>>
queueVars   == <<qBuffer, qHead, qTail>>
callVars    == <<callClean, owed>>
serialVars  == <<pc, received, wire, pushed, pushOk, popped, decoded,
                 allCalls, callVars>>
vars        == <<decoderVars, historyVars, profile, script, queueVars,
                 serialVars>>

(***************************************************************************)
(* Fixed-width arithmetic.                                                 *)
(***************************************************************************)
ToUint8(x) == x % 256

ToInt16(x) == LET m == x % 65536 IN IF m >= 32768 THEN m - 65536 ELSE m

RECURSIVE BitOr(_, _)
BitOr(a, b) ==
  IF a = 0 THEN b
  ELSE IF b = 0 THEN a
  ELSE (IF a % 2 = 1 \/ b % 2 = 1 THEN 1 ELSE 0) + 2 * BitOr(a \div 2, b \div 2)

RECURSIVE BitAnd(_, _)
BitAnd(a, b) ==
  IF a = 0 \/ b = 0 THEN 0
  ELSE (IF a % 2 = 1 /\ b % 2 = 1 THEN 1 ELSE 0) + 2 * BitAnd(a \div 2, b \div 2)

ShiftRight(a, n) == a \div (2 ^ n)
ShiftLeft(a, n)  == a * (2 ^ n)

(***************************************************************************)
(* The extern handlers: a call is recorded with its arguments.  sysex      *)
(* receives the buffer itself, so the record keeps the buffer contents at  *)
(* the time of the call.                                                   *)
(***************************************************************************)
noteOn(channel, note, velocity) ==
  [handler |-> "noteOn", channel |-> channel, note |-> note, velocity |-> velocity]
noteOff(channel, note) ==
  [handler |-> "noteOff", channel |-> channel, note |-> note]
controlChange(channel, data1, data2) ==
  [handler |-> "controlChange", channel |-> channel, data1 |-> data1, data2 |-> data2]
pitchBend(channel, value) ==
  [handler |-> "pitchBend", channel |-> channel, value |-> value]
programChange(channel, program) ==
  [handler |-> "programChange", channel |-> channel, program |-> program]
sysex(cbData, bytes) ==
  [handler |-> "sysex", cbData |-> cbData, bytes |-> bytes]

(***************************************************************************)
(* Midi::midiStatusToDataLength[]: eight entries, indices 0..7.            *)
(***************************************************************************)
\* mutant: ProgramChange entered with two data bytes
midiStatusToDataLength_ProgramChangeTwo ==
  [s \in 0..7 |-> IF s = MidiStatus_Extended THEN maxMidiData
                  ELSE IF s = MidiStatus_ChannelPressure THEN 1 ELSE 2]

\* mutant: one data byte more than the buffer holds expected of a sysex
midiStatusToDataLength_ExtendedOneMore ==
  [s \in 0..7 |-> IF s = MidiStatus_Extended THEN maxMidiData + 1
                  ELSE IF s \in {MidiStatus_ProgramChange,
                                 MidiStatus_ChannelPressure} THEN 1 ELSE 2]

midiStatusToDataLength ==
  [s \in 0..7 |-> CASE s = MidiStatus_NoteOff         -> 2
                    [] s = MidiStatus_NoteOn          -> 2
                    [] s = MidiStatus_PolyKeyPressure -> 2
                    [] s = MidiStatus_ControlChange   -> 2
                    [] s = MidiStatus_ProgramChange   -> 1
                    [] s = MidiStatus_ChannelPressure -> 1
                    [] s = MidiStatus_PitchBend       -> 2
                    [] s = MidiStatus_Extended        -> maxMidiData]

(***************************************************************************)
(* Midi::dispatchCommand(), evaluated on status `status`, channel          *)
(* `channel` and buffer `data`: the sequence of handler calls it makes.    *)
(* One operator per case of the switch.                                    *)
(***************************************************************************)
caseNoteOff(channel, data) == <<noteOff(channel, data[0])>>

\* mutant: note and velocity passed in the wrong order
caseNoteOn_Swapped(channel, data) ==
  IF data[1] = 0 THEN <<noteOff(channel, data[0])>>
                 ELSE <<noteOn(channel, data[1], data[0])>>

\* mutant: no velocity-zero alias
caseNoteOn_NoAlias(channel, data) == <<noteOn(channel, data[0], data[1])>>

caseNoteOn(channel, data) ==
  IF data[1] = 0 THEN <<noteOff(channel, data[0])>>
                 ELSE <<noteOn(channel, data[0], data[1])>>

\* mutant: the most significant byte shifted as an 8 bit quantity
PitchBendValue_ShiftEight(data0, data1) ==
  LET v0 == ToInt16(data1)
      v1 == ToInt16(ShiftLeft(v0, 8))
      v2 == ToInt16(BitOr(v1, data0))
  IN  ToInt16(v2 - 8192)

\* int16_t value = midiData[1]; value <<= 7; value |= midiData0;
\* value -= 0x2000;
PitchBendValue(data0, data1) ==
  LET v0 == ToInt16(data1)
      v1 == ToInt16(ShiftLeft(v0, 7))
      v2 == ToInt16(BitOr(v1, data0))
  IN  ToInt16(v2 - 8192)

casePitchBend(channel, data) ==
  <<pitchBend(channel, PitchBendValue(data[0], data[1]))>>

caseControlChange(channel, data) ==
  <<controlChange(channel, data[0], data[1])>>

\* mutant: the program read from the second buffer slot
caseProgramChange_SecondSlot(channel, data) ==
  <<programChange(channel, data[1])>>

caseProgramChange(channel, data) == <<programChange(channel, data[0])>>

\* mutant: a sysex that fills the buffer is handed over at once
dispatchCommand_SysexWhenFull(status, channel, data) ==
  CASE status = MidiStatus_NoteOff       -> caseNoteOff(channel, data)
    [] status = MidiStatus_NoteOn        -> caseNoteOn(channel, data)
    [] status = MidiStatus_PitchBend     -> casePitchBend(channel, data)
    [] status = MidiStatus_ControlChange -> caseControlChange(channel, data)
    [] status = MidiStatus_ProgramChange -> caseProgramChange(channel, data)
    [] status = MidiStatus_Extended      -> <<sysex(maxMidiData, data)>>
    [] OTHER                             -> <<>>

dispatchCommand(status, channel, data) ==
  CASE status = MidiStatus_NoteOff       -> caseNoteOff(channel, data)
    [] status = MidiStatus_NoteOn        -> caseNoteOn(channel, data)
    [] status = MidiStatus_PitchBend     -> casePitchBend(channel, data)
    [] status = MidiStatus_ControlChange -> caseControlChange(channel, data)
    [] status = MidiStatus_ProgramChange -> caseProgramChange(channel, data)
    [] OTHER                             -> <<>>

(***************************************************************************)
(* Midi::decode(byte), in its four branches.  Each branch sets `calls` to  *)
(* the handler calls it makes.                                             *)
(***************************************************************************)
IsStatusByte(byte) == BitAnd(byte, 128) # 0

StatusOf(byte) == ToUint8(ShiftRight(byte, 4) - 8)

\* mutant: the count of bytes still expected passed as the length
EndSysex_RemainingAsLength ==
  /\ calls' = <<sysex(midiDataRemaining, midiData)>>
  /\ midiStatus' = MidiStatus_Unknown
  /\ UNCHANGED <<midiChannel, midiDataRemaining, midiDataIndex, midiData, oob>>

\* byte & 0x80, midiStatus == MidiStatus_Extended: sysex(), Unknown, return
EndSysex ==
  /\ calls' = <<sysex(midiDataIndex, midiData)>>
  /\ midiStatus' = MidiStatus_Unknown
  /\ UNCHANGED <<midiChannel, midiDataRemaining, midiDataIndex, midiData, oob>>

\* mutant: the write index is not reset
BeginMessage_KeepIndex(byte) ==
  /\ midiStatus' = StatusOf(byte)
  /\ midiDataRemaining' = midiStatusToDataLength[StatusOf(byte)]
  /\ midiChannel' = BitAnd(byte, 15)
  /\ calls' = <<>>
  /\ UNCHANGED <<midiDataIndex, midiData, oob>>

\* mutant: the single-byte real-time messages 0xF8..0xFF are passed over
BeginMessage_SkipsRealTime(byte) ==
  IF byte >= 248
    THEN /\ calls' = <<>>
         /\ UNCHANGED decoderVars
    ELSE /\ midiStatus' = StatusOf(byte)
         /\ midiDataRemaining' = midiStatusToDataLength[StatusOf(byte)]
         /\ midiDataIndex' = 0
         /\ midiChannel' = BitAnd(byte, 15)
         /\ calls' = <<>>
         /\ UNCHANGED <<midiData, oob>>

\* byte & 0x80, any other midiStatus: start of a new message
BeginMessage(byte) ==
  /\ midiStatus' = StatusOf(byte)
  /\ midiDataRemaining' = midiStatusToDataLength[StatusOf(byte)]
  /\ midiDataIndex' = 0
  /\ midiChannel' = BitAnd(byte, 15)
  /\ calls' = <<>>
  /\ UNCHANGED <<midiData, oob>>

\* mutant: running status, as in the commented-out lines of dispatchCommand
StoreData_RunningStatus(byte) ==
  /\ IF midiDataIndex < maxMidiData
       THEN /\ midiData' = [midiData EXCEPT ![midiDataIndex] = byte]
            /\ oob' = oob
       ELSE /\ midiData' = midiData
            /\ oob' = TRUE
  /\ UNCHANGED <<midiStatus, midiChannel>>
  /\ IF ToUint8(midiDataRemaining - 1) = 0
       THEN /\ calls' = dispatchCommand(midiStatus, midiChannel, midiData')
            /\ midiDataRemaining' =
                 IF midiStatus \in 0..7 THEN midiStatusToDataLength[midiStatus]
                                        ELSE 0
            /\ midiDataIndex' = 0
       ELSE /\ calls' = <<>>
            /\ midiDataRemaining' = ToUint8(midiDataRemaining - 1)
            /\ midiDataIndex' = ToUint8(midiDataIndex + 1)

\* data byte, midiDataRemaining > 0: store, count down, dispatch at 0.
\* A store outside midiData[0..31] is undefined behaviour.  It is recorded
\* in oob, which never resets; what such a store does to memory is not
\* modelled, so a behaviour says nothing about the program once oob holds.
StoreData(byte) ==
  /\ IF midiDataIndex < maxMidiData
       THEN /\ midiData' = [midiData EXCEPT ![midiDataIndex] = byte]
            /\ oob' = oob
       ELSE /\ midiData' = midiData
            /\ oob' = TRUE
  /\ midiDataIndex' = ToUint8(midiDataIndex + 1)
  /\ midiDataRemaining' = ToUint8(midiDataRemaining - 1)
  /\ UNCHANGED <<midiStatus, midiChannel>>
  /\ calls' = IF midiDataRemaining' = 0
                THEN dispatchCommand(midiStatus', midiChannel', midiData')
                ELSE <<>>

\* mutant: a data byte nothing is waiting for puts the decoder in Unknown
DropData_ToUnknown ==
  /\ calls' = <<>>
  /\ midiStatus' = MidiStatus_Unknown
  /\ UNCHANGED <<midiChannel, midiDataRemaining, midiDataIndex, midiData, oob>>

\* data byte, midiDataRemaining == 0: nothing happens
DropData ==
  /\ calls' = <<>>
  /\ UNCHANGED decoderVars

MaxChannelData ==
  CHOOSE n \in 0..maxMidiData :
    /\ \E s \in 0..6 : midiStatusToDataLength[s] = n
    /\ \A s \in 0..6 : midiStatusToDataLength[s] <= n

InProgress == midiStatus # MidiStatus_Unknown /\ midiDataRemaining > 0

decode(byte) ==
  /\ IF IsStatusByte(byte)
       THEN IF midiStatus = MidiStatus_Extended
              THEN EndSysex
              ELSE BeginMessage(byte)
       ELSE IF midiDataRemaining > 0
              THEN StoreData(byte)
              ELSE DropData
  /\ op' = "decode"
  /\ lastByte' = byte
  /\ IF IsStatusByte(byte)
       THEN /\ cur' = <<byte>>
            /\ curEndsSysex' = (midiStatus = MidiStatus_Extended)
            /\ curCalls' = calls'
            /\ abandoned' = IF midiStatus \in 0..6 /\ midiDataRemaining > 0
                              THEN midiDataIndex ELSE -1
            /\ stray' = 0
       ELSE /\ cur' = Append(cur, byte)
            /\ curEndsSysex' = curEndsSysex
            /\ curCalls' = curCalls \o calls'
            /\ abandoned' = abandoned
            /\ stray' = IF InProgress THEN 0 ELSE stray + 1

(***************************************************************************)
(* RingBuffer<uint8_t, Log2Capacity> (ringbuffer.h, not among the          *)
(* sources): modelled from the specification's Byte Queue.  Capacity       *)
(* 2^Log2Capacity, cursors wrapped with the mask capacity - 1, one slot    *)
(* kept free so that equal cursors mean empty.                             *)
(***************************************************************************)
Log2Capacity == 6
capacity     == 2 ^ Log2Capacity
mask         == capacity - 1

Occupancy == (qTail - qHead) % capacity

\* mutant: no full check, the write cursor runs over the read cursor
RingBuffer_enqueue_NoFullCheck(value) ==
  /\ qBuffer' = [qBuffer EXCEPT ![qTail] = value]
  /\ qTail' = BitAnd(qTail + 1, mask)
  /\ pushed' = Append(pushed, value)
  /\ pushOk' = TRUE
  /\ UNCHANGED qHead

\* push(byte) -> bool
RingBuffer_enqueue(value) ==
  LET next == BitAnd(qTail + 1, mask) IN
  IF next = qHead
    THEN /\ pushOk' = FALSE
         /\ UNCHANGED <<qBuffer, qHead, qTail, pushed>>
    ELSE /\ qBuffer' = [qBuffer EXCEPT ![qTail] = value]
         /\ qTail' = next
         /\ pushed' = Append(pushed, value)
         /\ pushOk' = TRUE
         /\ UNCHANGED qHead

\* pop() -> optional<byte>, first half: the empty test and the read
RingBuffer_dequeue_read ==
  IF qHead = qTail
    THEN /\ pc' = "idle"
         /\ UNCHANGED received
    ELSE /\ received' = qBuffer[qHead]
         /\ pc' = "advance"

\* pop(), second half: the read cursor advances
RingBuffer_dequeue_advance ==
  /\ qHead' = BitAnd(qHead + 1, mask)
  /\ popped' = Append(popped, received)

(***************************************************************************)
(* Midi::enqueue and ISR(USART_RX_vect).  The interrupt runs to completion *)
(* and may be raised between any two steps of the main loop.               *)
(***************************************************************************)
\* mutant: the byte loses its high bit on the way into the queue
Midi_enqueue_Masked(byte) == RingBuffer_enqueue(byte % 128)

Midi_enqueue(byte) == RingBuffer_enqueue(byte)

MaxWire == 66

SerialPatterns ==
  { <<144, 60, 64, 192, 5, 208, 1>>,
    <<240, 1, 2, 3, 247, 224, 0, 64, 144, 60, 0>> }

UDR0 == script[(Len(wire) % Len(script)) + 1]

\* mutant: the interrupt decodes the byte itself instead of queueing it
ISR_DecodesInline ==
  /\ Len(wire) < MaxWire
  /\ wire' = Append(wire, UDR0)
  /\ decode(UDR0)
  /\ allCalls' = allCalls \o calls'
  /\ UNCHANGED <<profile, script, queueVars, pc, received, pushed, pushOk,
                 popped, decoded, callVars>>

ISR ==
  /\ Len(wire) < MaxWire
  /\ wire' = Append(wire, UDR0)
  /\ Midi_enqueue(UDR0)
  /\ op' = "enqueue"
  /\ IF pc = "idle"
       THEN UNCHANGED callVars
       ELSE callClean' = FALSE /\ owed' = 0
  /\ UNCHANGED <<decoderVars, lastByte, calls, cur, curEndsSysex, curCalls,
                 abandoned, stray, profile, script, pc, received, popped, decoded,
                 allCalls>>

(***************************************************************************)
(* Midi::dispatch(): while (_midiBuffer.dequeue(received)) decode(received) *)
(***************************************************************************)
\* loop() calls Midi::dispatch()
CallDispatch ==
  /\ pc = "idle"
  /\ pc' = "dequeue"
  /\ op' = "call"
  /\ callClean' = TRUE
  /\ owed' = Len(pushed) - Len(popped)
  /\ UNCHANGED <<decoderVars, lastByte, calls, cur, curEndsSysex, curCalls,
                 abandoned, stray, profile, script, queueVars, received, wire, pushed,
                 pushOk, popped, decoded, allCalls>>

\* mutant: an empty queue does not end the loop, dispatch() waits for bytes
DequeueRead_Waits ==
  /\ pc = "dequeue"
  /\ IF qHead = qTail THEN UNCHANGED <<pc, received>>
                      ELSE RingBuffer_dequeue_read
  /\ op' = "dequeue"
  /\ UNCHANGED <<decoderVars, lastByte, calls, cur, curEndsSysex, curCalls,
                 abandoned, stray, profile, script, queueVars, wire, pushed, pushOk,
                 popped, decoded, allCalls, callVars>>

\* the loop condition, up to the read of the oldest byte; an empty queue
\* ends the loop and dispatch() returns
DequeueRead ==
  /\ pc = "dequeue"
  /\ RingBuffer_dequeue_read
  /\ op' = "dequeue"
  /\ IF pc' = "idle"
       THEN callClean' = TRUE /\ owed' = 0
       ELSE UNCHANGED callVars
  /\ UNCHANGED <<decoderVars, lastByte, calls, cur, curEndsSysex, curCalls,
                 abandoned, stray, profile, script, queueVars, wire, pushed, pushOk,
                 popped, decoded, allCalls>>

DequeueAdvance ==
  /\ pc = "advance"
  /\ RingBuffer_dequeue_advance
  /\ pc' = "decode"
  /\ op' = "dequeue"
  /\ UNCHANGED <<decoderVars, lastByte, calls, cur, curEndsSysex, curCalls,
                 abandoned, stray, profile, script, qBuffer, qTail, received, wire,
                 pushed, pushOk, decoded, allCalls, callVars>>

\* mutant: the byte is read from the storage after the cursor has moved on
DecodeReceived_ReadsSlot ==
  /\ pc = "decode"
  /\ decode(qBuffer[qHead])
  /\ pc' = "dequeue"
  /\ decoded' = Append(decoded, qBuffer[qHead])
  /\ allCalls' = allCalls \o calls'
  /\ owed' = IF callClean THEN owed - 1 ELSE 0
  /\ UNCHANGED callClean
  /\ UNCHANGED <<profile, script, queueVars, received, wire, pushed, pushOk,
                 popped>>

\* the loop body
DecodeReceived ==
  /\ pc = "decode"
  /\ decode(received)
  /\ pc' = "dequeue"
  /\ decoded' = Append(decoded, received)
  /\ allCalls' = allCalls \o calls'
  /\ owed' = IF callClean THEN owed - 1 ELSE 0
  /\ UNCHANGED callClean
  /\ UNCHANGED <<profile, script, queueVars, received, wire, pushed, pushOk,
                 popped>>

(***************************************************************************)
(* The bytes the environment offers in the current state.                  *)
(***************************************************************************)
StatusChoices ==
  IF profile = "short" THEN ShortStatusBytes ELSE LongStatusBytes

DataChoices ==
  IF ~InProgress /\ stray >= MaxStray THEN {}
  ELSE IF midiDataRemaining = 0
    THEN IF profile = "short" THEN ShortDataBytes ELSE LongDataBytes
  ELSE IF profile = "short"
    THEN IF midiDataIndex >= MaxPayload THEN {}
         ELSE IF midiDataIndex < MaxChannelData THEN ShortDataBytes
         ELSE {Filler(midiDataIndex)}
  ELSE IF midiDataIndex = 0 THEN LongDataBytes
  ELSE {Filler(midiDataIndex)}

Feed ==
  /\ \E byte \in StatusChoices \cup DataChoices : decode(byte)
  /\ UNCHANGED <<profile, script, queueVars, serialVars>>

\* the environment feeds the next byte of a fixed script
FeedScript ==
  /\ script # <<>>
  /\ decode(Head(script))
  /\ script' = Tail(script)
  /\ UNCHANGED <<profile, queueVars, serialVars>>

(***************************************************************************)
(* Static initialisers of class Midi.                                      *)
(***************************************************************************)
InitDecoder ==
  /\ midiStatus = MidiStatus_Unknown
  /\ midiChannel = 255
  /\ midiDataRemaining = 0
  /\ midiDataIndex = 0
  /\ midiData = [i \in 0..(maxMidiData - 1) |-> 0]
  /\ oob = FALSE
  /\ op = "init"
  /\ lastByte = 0
  /\ calls = <<>>
  /\ cur = <<>>
  /\ curEndsSysex = FALSE
  /\ curCalls = <<>>
  /\ abandoned = -1
  /\ stray = 0

\* RingBuffer's constructor, and the main loop outside dispatch()
InitQueue ==
  /\ qBuffer = [i \in 0..(capacity - 1) |-> 0]
  /\ qHead = 0
  /\ qTail = 0
  /\ pc = "idle"
  /\ received = 0
  /\ wire = <<>>
  /\ pushed = <<>>
  /\ pushOk = TRUE
  /\ popped = <<>>
  /\ decoded = <<>>
  /\ allCalls = <<>>
  /\ callClean = TRUE
  /\ owed = 0

(***************************************************************************)
(* Spec: decode() called with any byte the profile offers.                 *)
(***************************************************************************)
Init ==
  /\ InitDecoder
  /\ InitQueue
  /\ profile \in Profiles
  /\ script = <<>>

Next == Feed

Spec == Init /\ [][Next]_vars

(***************************************************************************)
(* SpecBend: decode() called with the bytes of one pitch-bend message,     *)
(* every pair of data bytes 0..127, after one of a few preludes.           *)
(***************************************************************************)
BendChannels == {0, 15}
BendPreludes == {<<>>, <<144, 127>>}

InitBend ==
  /\ InitDecoder
  /\ InitQueue
  /\ profile = "script"
  /\ script \in {pre \o <<224 + n, lsb, msb>> :
                   pre \in BendPreludes, n \in BendChannels,
                   lsb \in 0..127, msb \in 0..127}

NextBend == FeedScript

SpecBend == InitBend /\ [][NextBend]_vars

(***************************************************************************)
(* SpecSerial: the whole program.  The receive interrupt enqueues the      *)
(* bytes of a cyclic wire pattern, MaxWire bytes in all, and the main loop *)
(* calls dispatch() again and again.                                       *)
(***************************************************************************)
InitSerial ==
  /\ InitDecoder
  /\ InitQueue
  /\ profile = "serial"
  /\ script \in SerialPatterns

NextSerial ==
  \/ ISR
  \/ CallDispatch
  \/ DequeueRead
  \/ DequeueAdvance
  \/ DecodeReceived

SpecSerial == InitSerial /\ [][NextSerial]_vars

\* The main loop runs whenever no interrupt is being served, so a step of
\* dispatch() that can be taken is taken eventually.
MainLoop == DequeueRead \/ DequeueAdvance \/ DecodeReceived

SpecSerialFair == SpecSerial /\ WF_vars(MainLoop)

(***************************************************************************)
(* Vocabulary of the claims, written from the wire format: the kind,       *)
(* channel and data byte count a status byte announces, and the handler    *)
(* call the dispatch table of the specification gives for a message.       *)
(***************************************************************************)
KindOf(statusByte)    == (statusByte \div 16) - 8
ChannelOf(statusByte) == statusByte % 16
DataCount(kind)       == IF kind \in {4, 5} THEN 1 ELSE 2

\* cur is exactly one channel message: a status byte 0x80..0xEF followed by
\* its full count of data bytes.
CompleteChannelMessage ==
  /\ Len(cur) >= 2
  /\ cur[1] \in 128..239
  /\ Len(cur) = 1 + DataCount(KindOf(cur[1]))

TableCalls(msg) ==
  LET kind == KindOf(msg[1])
      n    == ChannelOf(msg[1])
  IN  CASE kind = 0 -> <<noteOff(n, msg[2])>>
        [] kind = 1 -> IF msg[3] = 0 THEN <<noteOff(n, msg[2])>>
                                     ELSE <<noteOn(n, msg[2], msg[3])>>
        [] kind = 3 -> <<controlChange(n, msg[2], msg[3])>>
        [] kind = 4 -> <<programChange(n, msg[2])>>
        [] kind = 6 -> <<pitchBend(n, msg[3] * 128 + msg[2] - 8192)>>
        [] OTHER    -> <<>>

Min(a, b) == IF a < b THEN a ELSE b

(***************************************************************************)
(* C1: three bytes 0x90+n, note, velocity (velocity > 0), the first of     *)
(* them decoded in a status other than Extended, make exactly one handler  *)
(* call over the three decode calls, and it is noteOn(n, note, velocity).  *)
(***************************************************************************)
C1_NoteOnDispatched ==
  (/\ Len(cur) = 3
   /\ cur[1] \in 144..159
   /\ cur[3] # 0
   /\ ~curEndsSysex)
  => curCalls = <<noteOn(cur[1] - 144, cur[2], cur[3])>>

C1_Witness ==
  /\ cur = <<159, 1, 127>>
  /\ ~curEndsSysex
  /\ curCalls = <<noteOn(15, 1, 127)>>

(***************************************************************************)
(* C2: three bytes 0x90+n, note, 0, the first decoded in a status other    *)
(* than Extended, make exactly one handler call, noteOff(n, note), and so  *)
(* no noteOn call.                                                         *)
(***************************************************************************)
C2_VelocityZeroIsNoteOff ==
  (/\ Len(cur) = 3
   /\ cur[1] \in 144..159
   /\ cur[3] = 0
   /\ ~curEndsSysex)
  => /\ curCalls = <<noteOff(cur[1] - 144, cur[2])>>
     /\ \A i \in 1..Len(curCalls) : curCalls[i].handler # "noteOn"

C2_Witness ==
  /\ cur = <<144, 127, 0>>
  /\ ~curEndsSysex
  /\ curCalls = <<noteOff(0, 127)>>

(***************************************************************************)
(* C3: the bytes 0xE0+n, lsb, msb make exactly one call pitchBend(n, v)    *)
(* with v = ((msb << 7) | lsb) - 0x2000; v lies in -8192..8191, so the     *)
(* int16_t arithmetic never wraps; and v determines lsb and msb: the two   *)
(* data bytes that encode v are the ones fed, so feeding the encoding of   *)
(* any v in -8192..8191 reproduces v.                                      *)
(***************************************************************************)
EncodeLsb(v) == (v + 8192) % 128
EncodeMsb(v) == (v + 8192) \div 128

C3_PitchBendRoundTrip ==
  (script = <<>> /\ Len(cur) = 3 /\ cur[1] \in 224..239)
  => LET lsb == cur[2]
         msb == cur[3]
         v   == BitOr(ShiftLeft(msb, 7), lsb) - 8192
     IN  /\ curCalls = <<pitchBend(cur[1] - 224, v)>>
         /\ v = msb * 128 + lsb - 8192
         /\ v \in -8192..8191
         /\ EncodeLsb(v) = lsb
         /\ EncodeMsb(v) = msb

C3_Witness ==
  /\ script = <<>>
  /\ cur = <<239, 127, 127>>
  /\ curCalls = <<pitchBend(15, 8191)>>

(***************************************************************************)
(* C4: the decode call that receives the last data byte of a NoteOff,      *)
(* ControlChange, ProgramChange, PolyKeyPressure or ChannelPressure        *)
(* message (midiDataRemaining reaches 0) calls exactly the handler of the  *)
(* dispatch table, with the channel of the status byte and the data bytes  *)
(* of this message; the two pressure kinds call nothing.                   *)
(***************************************************************************)
C4_DispatchTable ==
  (/\ CompleteChannelMessage
   /\ KindOf(cur[1]) \in {0, 2, 3, 4, 5}
   /\ ~curEndsSysex)
  => /\ midiDataRemaining = 0
     /\ midiStatus = KindOf(cur[1])
     /\ midiChannel = ChannelOf(cur[1])
     /\ calls = TableCalls(cur)

C4_Witness ==
  /\ cur = <<192, 127>>
  /\ ~curEndsSysex
  /\ midiDataRemaining = 0
  /\ calls = <<programChange(0, 127)>>

(***************************************************************************)
(* C5: a decode call with a status byte in status Extended calls sysex     *)
(* once and nothing else; the length is the number of data bytes           *)
(* accumulated since the sysex started (those decoded since its status     *)
(* byte, of which the buffer takes the first 32), the payload starts with  *)
(* those bytes in arrival order, status becomes Unknown and the channel    *)
(* is left alone.                                                          *)
(***************************************************************************)
C5_StatusByteEndsSysex ==
  [][(/\ op' = "decode"
      /\ midiStatus = MidiStatus_Extended
      /\ lastByte' >= 128)
     => /\ Len(calls') = 1
        /\ calls'[1].handler = "sysex"
        /\ calls'[1].cbData = Min(Len(cur) - 1, maxMidiData)
        /\ \A i \in 1..calls'[1].cbData : calls'[1].bytes[i - 1] = cur[i + 1]
        /\ midiStatus' = MidiStatus_Unknown
        /\ midiChannel' = midiChannel]_vars

\* 0xF0 0x01 0x02 0xF7 has just been decoded: sysex(2, [1, 2]), Unknown.
C5_Witness ==
  /\ cur = <<247>>
  /\ curEndsSysex
  /\ midiStatus = MidiStatus_Unknown
  /\ midiChannel = 0
  /\ Len(calls) = 1
  /\ calls[1].handler = "sysex"
  /\ calls[1].cbData = 2
  /\ calls[1].bytes[0] = 1
  /\ calls[1].bytes[1] = 2

(***************************************************************************)
(* C6: a data byte decoded in status Unknown calls no handler and leaves   *)
(* midiDataRemaining and midiDataIndex unchanged.                          *)
(***************************************************************************)
C6_UnknownIgnoresData ==
  [][(/\ op' = "decode"
      /\ midiStatus = MidiStatus_Unknown
      /\ lastByte' < 128)
     => /\ calls' = <<>>
        /\ UNCHANGED <<midiDataRemaining, midiDataIndex>>]_vars

(***************************************************************************)
(* C7: a channel message that has completed leaves status at its kind and  *)
(* midiDataRemaining at 0, and a data byte decoded after it, before the    *)
(* next status byte, calls no handler and changes no decoder field.        *)
(***************************************************************************)
MessageCompleted ==
  /\ Len(cur) >= 2
  /\ cur[1] \in 128..239
  /\ Len(cur) >= 1 + DataCount(KindOf(cur[1]))
  /\ ~curEndsSysex

C7_NoRunningStatus ==
  [][(/\ MessageCompleted
      /\ op' = "decode"
      /\ lastByte' < 128)
     => /\ midiStatus = KindOf(cur[1])
        /\ midiDataRemaining = 0
        /\ calls' = <<>>
        /\ UNCHANGED <<midiStatus, midiChannel, midiDataRemaining,
                       midiDataIndex, midiData>>]_vars

C7_Witness ==
  /\ cur = <<144, 1, 127, 0, 1>>
  /\ ~curEndsSysex
  /\ midiStatus = MidiStatus_NoteOn
  /\ midiDataRemaining = 0
  /\ calls = <<>>
  /\ curCalls = <<noteOn(0, 1, 127)>>

(***************************************************************************)
(* C8: a complete channel message (status byte 0x80..0xEF and its full     *)
(* count of data bytes) is dispatched to its handler with its channel and  *)
(* data.  As claimed, from every reachable state; as amended, from every   *)
(* reachable state whose status is not Extended.                           *)
(***************************************************************************)
C8_ResyncFromAnyState ==
  CompleteChannelMessage => curCalls = TableCalls(cur)

C8_ResyncOutsideSysex ==
  (CompleteChannelMessage /\ ~curEndsSysex) => curCalls = TableCalls(cur)

\* resynchronised after stray data bytes: the buffer slot past the message
\* still holds a byte of an earlier, longer payload
C8_Witness ==
  /\ cur = <<176, 1, 127>>
  /\ ~curEndsSysex
  /\ curCalls = <<controlChange(0, 1, 127)>>
  /\ midiData[2] = Filler(2)

(***************************************************************************)
(* C9: every channel-message handler call has its channel in 0..15, its    *)
(* data arguments in 0..127 (noteOn velocity in 1..127, pitchBend value in *)
(* -8192..8191), and takes channel and arguments from the status byte and  *)
(* data bytes of the message that just completed.                          *)
(***************************************************************************)
CallOfMessage(c) ==
  /\ CompleteChannelMessage
  /\ c.channel \in 0..15
  /\ c.channel = ChannelOf(cur[1])
  /\ CASE c.handler = "noteOn" ->
             /\ c.note = cur[2] /\ c.note \in 0..127
             /\ c.velocity = cur[3] /\ c.velocity \in 1..127
        [] c.handler = "noteOff" ->
             c.note = cur[2] /\ c.note \in 0..127
        [] c.handler = "controlChange" ->
             /\ c.data1 = cur[2] /\ c.data1 \in 0..127
             /\ c.data2 = cur[3] /\ c.data2 \in 0..127
        [] c.handler = "programChange" ->
             c.program = cur[2] /\ c.program \in 0..127
        [] c.handler = "pitchBend" ->
             /\ c.value = cur[3] * 128 + cur[2] - 8192
             /\ c.value \in -8192..8191
        [] OTHER -> FALSE

C9_ArgumentsInRange ==
  \A i \in 1..Len(calls) :
    calls[i].handler # "sysex" => CallOfMessage(calls[i])

\* programChange while the slots behind its data byte hold earlier bytes
C9_Witness ==
  /\ cur = <<192, 1>>
  /\ midiData[1] = 127
  /\ midiData[2] = Filler(2)
  /\ calls = <<programChange(0, 1)>>

(***************************************************************************)
(* C10: the bytes dequeue hands out are, in order, a prefix of the bytes   *)
(* whose enqueue succeeded, and the unread part of the storage is the rest *)
(* of them, so a queue that is empty again has handed out exactly what was *)
(* pushed; and a push into a queue holding fewer than capacity - 1 bytes   *)
(* succeeds, so at most capacity - 1 bytes pushed into an empty queue are  *)
(* all taken.                                                              *)
(***************************************************************************)
IsPrefix(a, b) == Len(a) <= Len(b) /\ a = SubSeq(b, 1, Len(a))

Unread == [i \in 1..Occupancy |-> qBuffer[(qHead + i - 1) % capacity]]

C10_FifoState ==
  /\ IsPrefix(popped, pushed)
  /\ pushed = popped \o Unread
  /\ (qHead = qTail) => popped = pushed
  /\ (popped = <<>> /\ Len(wire) <= capacity - 1) => pushed = wire

C10_QueueIsFifo ==
  /\ []C10_FifoState
  /\ [][(op' = "enqueue" /\ Len(pushed) - Len(popped) < capacity - 1)
        => pushed' = Append(pushed, wire'[Len(wire')])]_vars

\* capacity - 1 bytes arrived, all were pushed, all came out in order, and
\* the queue is empty again
C10_Witness ==
  /\ Len(wire) = capacity - 1
  /\ pushed = wire
  /\ popped = wire
  /\ qHead = qTail
  /\ pc = "idle"

(***************************************************************************)
(* C11: an enqueue into a full queue (capacity - 1 bytes pushed and not    *)
(* yet popped) returns false and drops the byte: both cursors and the      *)
(* unread bytes stay as they were and the byte is not among the pushed     *)
(* ones; the interrupt still completes in that one step (the receive       *)
(* interrupt can always run, full queue or not), and every later dequeue   *)
(* hands out the next byte that was pushed successfully.                   *)
(***************************************************************************)
QueueFull == Len(pushed) - Len(popped) = capacity - 1

C11_PushOnFullDrops ==
  /\ [][(op' = "enqueue" /\ QueueFull)
        => /\ pushOk' = FALSE
           /\ pushed' = pushed
           /\ UNCHANGED <<qHead, qTail>>
           /\ Unread' = Unread
           /\ Len(wire') = Len(wire) + 1]_vars
  /\ [](Len(wire) < MaxWire => ENABLED ISR)
  /\ [][(op' = "dequeue" /\ popped' # popped)
        => /\ Len(popped') = Len(popped) + 1
           /\ popped'[Len(popped')] = pushed[Len(popped')]]_vars

\* a byte was just dropped by a full queue with the main loop part-way
\* through dispatch(), after earlier bytes had been popped
C11_Witness ==
  /\ op = "enqueue"
  /\ ~pushOk
  /\ QueueFull
  /\ Len(wire) > Len(pushed)
  /\ Len(popped) > 0

(***************************************************************************)
(* C12: with the receive interrupt raised between any two steps of         *)
(* dispatch(), the bytes passed to decode are, in order, a prefix of the   *)
(* bytes whose enqueue succeeded, each popped byte is decoded once, and    *)
(* the handler calls made so far are exactly, and in the order of, the     *)
(* messages completed within those bytes.  WireCalls reads a byte stream   *)
(* by the wire format alone: the calls its completed messages stand for.   *)
(***************************************************************************)
\* what a call hands to its handler; sysex is handed a length and that many
\* bytes
Told(c) ==
  IF c.handler = "sysex"
    THEN [handler |-> "sysex", cbData |-> c.cbData,
          payload |-> [i \in 1..c.cbData |-> c.bytes[i - 1]]]
    ELSE c

RECURSIVE WireCalls(_, _, _)
WireCalls(bytes, msg, inSysex) ==
  IF bytes = <<>> THEN <<>>
  ELSE
    LET b    == Head(bytes)
        rest == Tail(bytes)
    IN  IF b >= 128
          THEN IF inSysex
                 THEN <<[handler |-> "sysex",
                         cbData  |-> Min(Len(msg) - 1, maxMidiData),
                         payload |-> SubSeq(msg, 2,
                                            Min(Len(msg), maxMidiData + 1))]>>
                      \o WireCalls(rest, <<>>, FALSE)
                 ELSE WireCalls(rest, <<b>>, b >= 240)
        ELSE IF msg = <<>> THEN WireCalls(rest, msg, inSysex)
        ELSE IF inSysex THEN WireCalls(rest, Append(msg, b), TRUE)
        ELSE IF Len(msg) = DataCount(KindOf(msg[1]))
          THEN TableCalls(Append(msg, b))
               \o WireCalls(rest, Append(msg, b), FALSE)
          ELSE WireCalls(rest, Append(msg, b), FALSE)

C12_DecodedInWireOrder ==
  /\ IsPrefix(decoded, pushed)
  /\ IF pc = "decode" THEN popped = Append(decoded, received)
                      ELSE popped = decoded
  /\ (Len(wire) <= capacity - 1) => IsPrefix(decoded, wire)
  /\ [i \in 1..Len(allCalls) |-> Told(allCalls[i])]
       = WireCalls(decoded, <<>>, FALSE)

\* the interrupt has just run between dequeue and decode, more bytes are
\* waiting, and a sysex, a pitch bend and a note-off were dispatched in
\* the order they completed on the wire
C12_Witness ==
  /\ op = "enqueue"
  /\ pc = "decode"
  /\ Len(pushed) > Len(decoded) + 1
  /\ Len(allCalls) = 3
  /\ allCalls[1].handler = "sysex"
  /\ allCalls[2].handler = "pitchBend"
  /\ allCalls[3] = noteOff(0, 60)

(***************************************************************************)
(* C13: in every reachable state midiDataIndex is at most maxMidiData and  *)
(* no store into midiData has happened at an index outside 0..31; the      *)
(* index and the count of bytes still expected never add up to more than   *)
(* the buffer holds, which is why no data byte is stored once the index    *)
(* is maxMidiData.                                                         *)
(***************************************************************************)
C13_IndexWithinBuffer ==
  /\ midiDataIndex \in 0..maxMidiData
  /\ ~oob
  /\ midiDataIndex + midiDataRemaining <= maxMidiData
  /\ (midiDataIndex = maxMidiData) => midiDataRemaining = 0

\* a sysex was ended two bytes short of a full buffer and the data bytes
\* that followed went on filling it, up to its last slot and no further
C13_Witness ==
  /\ midiStatus = MidiStatus_Unknown
  /\ curEndsSysex
  /\ Len(cur) = 3
  /\ midiDataIndex = maxMidiData
  /\ midiData[maxMidiData - 1] = cur[3]
  /\ ~oob

(***************************************************************************)
(* C14: after decode of any status byte, in whatever state it was called,  *)
(* midiDataIndex is 0 and midiDataRemaining is the table value of the      *)
(* resulting status (2, 2, 2, 2, 1, 1, 2 for the channel kinds, 32 for     *)
(* Extended).                                                              *)
(***************************************************************************)
KindLength(kind) == IF kind = 7 THEN 32 ELSE DataCount(kind)

C14_StatusByteResets ==
  (op = "decode" /\ lastByte >= 128)
  => /\ midiDataIndex = 0
     /\ (midiStatus \in 0..7) => midiDataRemaining = KindLength(midiStatus)

(***************************************************************************)
(* C15: a call of dispatch() returns once the interrupt stops enqueuing    *)
(* (the wire carries MaxWire bytes in all); a byte is decoded only right   *)
(* after it was dequeued, and it is that byte; the dequeue that finds the  *)
(* queue empty, and no other, ends the call; and a call during which no    *)
(* byte arrived has made as many decode calls as bytes were unread when it *)
(* began and returns with the queue empty.                                 *)
(***************************************************************************)
C15_DispatchDrainsAndReturns ==
  /\ (pc # "idle") ~> (pc = "idle")
  /\ [][(popped' # popped) => pc' = "decode"]_vars
  /\ [][(decoded' # decoded)
        => /\ pc = "decode"
           /\ decoded' = Append(decoded, popped[Len(popped)])
           /\ Len(decoded') = Len(popped)]_vars
  /\ [][(pc = "dequeue" /\ op' = "dequeue")
        => (pc' = "idle" <=> Len(pushed) = Len(popped))]_vars
  /\ [](callClean => owed >= 0)
  /\ [][(pc # "idle" /\ pc' = "idle" /\ callClean)
        => /\ owed = 0
           /\ qHead' = qTail'
           /\ popped' = pushed']_vars

\* the five bytes received so far are all decoded, no byte arrived during
\* this call of dispatch(), which owes no decode call and is about to find
\* the queue empty
C15_Witness ==
  /\ pc = "dequeue"
  /\ op = "decode"
  /\ callClean
  /\ owed = 0
  /\ Len(wire) = 5
  /\ decoded = wire
  /\ qHead = qTail

(***************************************************************************)
(* C16: a step of the receive interrupt, wherever it falls in the main     *)
(* loop, leaves midiStatus, midiChannel, midiDataRemaining, midiDataIndex  *)
(* and midiData unchanged and calls no handler; of the queue it changes    *)
(* only the storage and the write cursor, never the read cursor.  A step   *)
(* of the main loop changes neither the storage nor the write cursor.      *)
(***************************************************************************)
C16_InterruptLeavesDecoderAlone ==
  /\ [][(wire' # wire)
        => /\ UNCHANGED <<midiStatus, midiChannel, midiDataRemaining,
                          midiDataIndex, midiData>>
           /\ UNCHANGED <<calls, allCalls, decoded>>
           /\ UNCHANGED <<qHead, popped, pc, received>>]_vars
  /\ [][(wire' = wire) => UNCHANGED <<qBuffer, qTail, pushed>>]_vars

\* the interrupt has just queued a byte between a dequeue and the decode
\* of the dequeued byte, with a message half received in the decoder
C16_Witness ==
  /\ op = "enqueue"
  /\ pushOk
  /\ pc = "decode"
  /\ midiDataIndex = 1
  /\ midiDataRemaining = 1
  /\ midiStatus = MidiStatus_NoteOn

(***************************************************************************)
(* C17: midiStatus is always one of the nine values 0..8.  It is Unknown   *)
(* only while no status byte has been decoded yet, the decoder fields then *)
(* being as initialised, or when the last status byte decoded ended a      *)
(* sysex.  After a status byte decoded in a status other than Extended,    *)
(* midiStatus is (byte >> 4) - 8, one of 0..7, an index of the table.      *)
(***************************************************************************)
NoStatusByteYet == cur = <<>> \/ cur[1] < 128

C17_StatusInRange ==
  /\ midiStatus \in 0..8
  /\ (midiStatus = MidiStatus_Unknown)
       => \/ /\ NoStatusByteYet
             /\ midiChannel = 255
             /\ midiDataRemaining = 0
             /\ midiDataIndex = 0
             /\ \A i \in 0..(maxMidiData - 1) : midiData[i] = 0
          \/ /\ ~NoStatusByteYet
             /\ curEndsSysex
  /\ (op = "decode" /\ lastByte >= 128 /\ ~curEndsSysex)
       => /\ midiStatus = KindOf(lastByte)
          /\ midiStatus \in DOMAIN midiStatusToDataLength
          /\ midiStatus \in 0..7

\* Unknown after the terminator 0xF7, a data byte decoded since
C17_Witness ==
  /\ midiStatus = MidiStatus_Unknown
  /\ curEndsSysex
  /\ Len(cur) = 2
  /\ cur[1] = 247
  /\ op = "decode"

(***************************************************************************)
(* C18: once 32 data bytes have followed the status byte that began a      *)
(* sysex, no handler has been called, midiData holds those 32 bytes in     *)
(* order, and every further data byte is decoded without a handler call    *)
(* and without a change to midiData; the status byte that then ends the    *)
(* sysex makes one call, sysex with length 32 and those first 32 data      *)
(* bytes.                                                                  *)
(***************************************************************************)
SysexData == Len(cur) - 1

FirstBytesStored(bytes) ==
  \A i \in 0..(maxMidiData - 1) : bytes[i] = cur[i + 2]

C18_LongSysexTruncated ==
  /\ []((midiStatus = MidiStatus_Extended /\ SysexData >= maxMidiData)
        => /\ curCalls = <<>>
           /\ midiDataIndex = maxMidiData
           /\ FirstBytesStored(midiData))
  /\ [][(/\ midiStatus = MidiStatus_Extended
         /\ SysexData >= maxMidiData
         /\ op' = "decode"
         /\ lastByte' < 128
         /\ cur' # cur)
        => /\ calls' = <<>>
           /\ midiData' = midiData
           /\ midiStatus' = MidiStatus_Extended]_vars
  /\ [][(/\ midiStatus = MidiStatus_Extended
         /\ SysexData > maxMidiData
         /\ op' = "decode"
         /\ lastByte' >= 128
         /\ cur' # cur)
        => /\ Len(calls') = 1
           /\ calls'[1].handler = "sysex"
           /\ calls'[1].cbData = maxMidiData
           /\ FirstBytesStored(calls'[1].bytes)]_vars

\* 34 data bytes into a sysex: the last two were dropped, the buffer holds
\* the first 32
C18_Witness ==
  /\ midiStatus = MidiStatus_Extended
  /\ SysexData = maxMidiData + 2
  /\ stray = 2
  /\ midiDataIndex = maxMidiData
  /\ midiData[0] = cur[2]
  /\ midiData[maxMidiData - 1] = Filler(maxMidiData - 1)
  /\ cur[maxMidiData + 2] # midiData[maxMidiData - 1]

(***************************************************************************)
(* C19: a status byte decoded while a channel message is incomplete        *)
(* (status not Extended, midiDataRemaining > 0) makes no handler call and  *)
(* starts over at index 0; from then on the only calls are those of the    *)
(* message the new status byte began, made when its own data bytes are     *)
(* all there and with those bytes as arguments, so that no byte of the     *)
(* message cut short reaches a handler.                                    *)
(***************************************************************************)
CallsOfCur ==
  IF cur[1] \in 128..239 /\ Len(cur) >= 1 + DataCount(KindOf(cur[1]))
    THEN TableCalls(SubSeq(cur, 1, 1 + DataCount(KindOf(cur[1]))))
    ELSE <<>>

C19_PartialMessageAbandoned ==
  /\ [][(/\ op' = "decode"
         /\ lastByte' >= 128
         /\ midiStatus # MidiStatus_Extended
         /\ midiDataRemaining > 0)
        => /\ calls' = <<>>
           /\ midiDataIndex' = 0
           /\ cur' = <<lastByte'>>]_vars
  /\ []((abandoned >= 0) => curCalls = CallsOfCur)

\* a note-on was cut short after its note 0 by a second note-on, which
\* was dispatched with its own note and velocity
C19_Witness ==
  /\ abandoned = 1
  /\ cur = <<144, 127, 1>>
  /\ curCalls = <<noteOn(0, 127, 1)>>
  /\ midiData[0] = 127

(***************************************************************************)
(* C20: every byte 0xF0..0xFF decoded in a status other than Extended,     *)
(* 0xF7 and the real-time bytes 0xF8..0xFF among them, leaves the decoder  *)
(* in Extended with midiDataRemaining 32 and midiDataIndex 0 and calls no  *)
(* handler; the next status byte, whatever its value, is taken as the      *)
(* terminator: it makes one call, sysex, status becomes Unknown and the    *)
(* channel is not updated.  As stated, the length passed is the number of  *)
(* data bytes decoded in between; in the code it is that number up to the  *)
(* 32 bytes midiData holds.                                                *)
(***************************************************************************)
SystemByteBeginsSysex ==
  [][(/\ op' = "decode"
      /\ lastByte' \in 240..255
      /\ midiStatus # MidiStatus_Extended)
     => /\ midiStatus' = MidiStatus_Extended
        /\ midiDataRemaining' = 32
        /\ midiDataIndex' = 0
        /\ calls' = <<>>]_vars

NextStatusByteEndsIt(length) ==
  (/\ op' = "decode"
   /\ lastByte' >= 128
   /\ midiStatus = MidiStatus_Extended)
  => /\ cur[1] \in 240..255
     /\ Len(calls') = 1
     /\ calls'[1].handler = "sysex"
     /\ calls'[1].cbData = length
     /\ midiStatus' = MidiStatus_Unknown
     /\ midiChannel' = midiChannel

\* the statement as made: the length is the number of data bytes
C20_SystemBytesBeginSysex ==
  /\ SystemByteBeginsSysex
  /\ [][NextStatusByteEndsIt(SysexData)]_vars

\* the statement as the code has it: the length stops at maxMidiData
C20_SystemBytesBeginSysexCapped ==
  /\ SystemByteBeginsSysex
  /\ [][NextStatusByteEndsIt(Min(SysexData, maxMidiData))]_vars

\* the real-time byte 0xF8 began a sysex (the channel field still holds
\* its low nibble) and the real-time byte 0xFF ended it with length 0
C20_Witness ==
  /\ op = "decode"
  /\ lastByte = 255
  /\ curEndsSysex
  /\ midiChannel = 8
  /\ midiStatus = MidiStatus_Unknown
  /\ Len(calls) = 1
  /\ calls[1].handler = "sysex"
  /\ calls[1].cbData = 0

====
